---- MODULE Spec2Model ----
(***************************************************************************)
(* Model of PDF_to_txt.py: the NLTK resource check run at import, the     *)
(* spelling analyzer and corrector, and the Streamlit batch loop with its  *)
(* CSV / ZIP outputs.                                                      *)
(*                                                                         *)
(* A string is a sequence of one-character strings.  The dictionary        *)
(* (pyspellchecker) and the tokenizer (NLTK) are the program's external    *)
(* collaborators; they are modelled by what the calls in the source rely   *)
(* on, restricted to the alphabet Alphabet.                                *)
(*                                                                         *)
(* Spec is one execution of the script, top to bottom, as Streamlit runs   *)
(* it on an interaction: _ensure_nltk() at import, then the branch of the  *)
(* button.  SpecText applies analyze_spelling and correct_spelling to      *)
(* every bounded text.                                                     *)
(***************************************************************************)
EXTENDS Integers, Sequences, FiniteSets, TLC

\* ------------------------------------------------------------ bounds
\* longest input text of the pure-function specification
MaxLen == 5
\* most files in one upload
MaxFiles == 2

\* ------------------------------------------------------------ characters
LowerLetters == {"a"}
UpperLetters == {"A"}
Letters == LowerLetters \cup UpperLetters
Alphabet == Letters \cup {",", " ", "-"}

\* Python's None, a value that is no string of the alphabet
None == <<"None">>

\* str.lower() on one character
LowerCh(c) == IF c = "A" THEN "a" ELSE c

\* str.upper() on one character
UpperCh(c) == IF c = "a" THEN "A" ELSE c

\* str.lower()
StrLower(s) == [i \in 1..Len(s) |-> LowerCh(s[i])]

\* str.isupper(): at least one cased character and no lower-case one
StrIsUpper(s) ==
    /\ \E i \in 1..Len(s) : s[i] \in UpperLetters
    /\ \A i \in 1..Len(s) : s[i] \notin LowerLetters

\* str.capitalize(): first character upper-cased, all the others lower-cased
Capitalize(s) ==
    [i \in 1..Len(s) |-> IF i = 1 THEN UpperCh(s[i]) ELSE LowerCh(s[i])]

\* _WORD_RE = ^[A-Za-z][A-Za-z'-]*$
WordRe(tok) ==
    /\ Len(tok) >= 1
    /\ tok[1] \in Letters
    /\ \A i \in 2..Len(tok) : tok[i] \in Letters \cup {"'", "-"}

\* ------------------------------------------------------------ tokenizer
\* nltk.word_tokenize on a text without sentence terminators: the Treebank
\* rules that touch the alphabet, applied in the tokenizer's order, then a
\* split on white space.

RECURSIVE CommaRuleFrom(_, _)
\* re.sub(r"([:,])([^\d])", r" \1 \2"): matches are found left to right and do
\* not overlap, so the character after a comma is consumed with it
CommaRuleFrom(s, i) ==
    IF i > Len(s) THEN <<>>
    ELSE IF s[i] \in {":", ","} /\ i < Len(s)
         THEN <<" ", s[i], " ", s[i + 1]>> \o CommaRuleFrom(s, i + 2)
         ELSE <<s[i]>> \o CommaRuleFrom(s, i + 1)

CommaRule(s) == CommaRuleFrom(s, 1)

\* re.sub(r"([:,])$", r" \1 ")
CommaEndRule(s) ==
    IF Len(s) >= 1 /\ s[Len(s)] \in {":", ","}
    THEN SubSeq(s, 1, Len(s) - 1) \o <<" ", s[Len(s)], " ">>
    ELSE s

RECURSIVE DoubleDashFrom(_, _)
\* re.sub(r"--", r" -- ")
DoubleDashFrom(s, i) ==
    IF i > Len(s) THEN <<>>
    ELSE IF i < Len(s) /\ s[i] = "-" /\ s[i + 1] = "-"
         THEN <<" ", "-", "-", " ">> \o DoubleDashFrom(s, i + 2)
         ELSE <<s[i]>> \o DoubleDashFrom(s, i + 1)

DoubleDashRule(s) == DoubleDashFrom(s, 1)

RECURSIVE SplitFrom(_, _, _)
\* str.split(): the maximal runs of non-space characters, in order
SplitFrom(s, i, cur) ==
    IF i > Len(s) THEN (IF cur = <<>> THEN <<>> ELSE <<cur>>)
    ELSE IF s[i] = " "
         THEN (IF cur = <<>> THEN <<>> ELSE <<cur>>) \o SplitFrom(s, i + 1, <<>>)
         ELSE SplitFrom(s, i + 1, Append(cur, s[i]))

Split(s) == SplitFrom(s, 1, <<>>)

\* nltk.word_tokenize(text)
word_tokenize(text) == Split(DoubleDashRule(CommaEndRule(CommaRule(text))))

\* ------------------------------------------------------------ joining
RECURSIVE Join(_)
\* " ".join(out)
Join(toks) ==
    IF toks = <<>> THEN <<>>
    ELSE IF Len(toks) = 1 THEN toks[1]
    ELSE toks[1] \o <<" ">> \o Join(Tail(toks))

RECURSIVE ReplaceFrom(_, _, _)
\* s.replace(" " + p, p): left to right, occurrences do not overlap
ReplaceFrom(s, p, i) ==
    IF i > Len(s) THEN <<>>
    ELSE IF i < Len(s) /\ s[i] = " " /\ s[i + 1] = p
         THEN <<p>> \o ReplaceFrom(s, p, i + 2)
         ELSE <<s[i]>> \o ReplaceFrom(s, p, i + 1)

\* the punctuation marks of the loop, in its order
Marks == <<",", ".", "!", "?", ":", ";">>

RECURSIVE FixPunct(_, _)
\* for p in [",", ".", "!", "?", ":", ";"]: s = s.replace(f" {p}", p)
FixPunct(s, k) ==
    IF k > Len(Marks) THEN s
    ELSE FixPunct(ReplaceFrom(s, Marks[k], 1), k + 1)

\* ------------------------------------------------------------ dictionary
\* The SpellChecker object: the set of known words and the best candidate it
\* proposes for a word it does not know (None when it has no candidate).
Vocabulary == {<<"a">>, <<"a", "a">>}

Oracles ==
    {[dict |-> D, target |-> t] : <<D, t>> \in
        {dt \in (SUBSET Vocabulary) \X (Vocabulary \cup {None}) :
            dt[2] = None \/ dt[2] \in dt[1]}}

\* the elements of a list
Range(f) == {f[i] : i \in DOMAIN f}

\* spell_checker.unknown(words): the words that are not in the dictionary
unknown(sp, words) == {w \in Range(words) : w \notin sp.dict}

\* spell_checker.correction(word): a known word is its own correction
correction(sp, w) == IF w \in sp.dict THEN w ELSE sp.target

\* ------------------------------------------------------------ core functions
\* a faulty variant of analyze_spelling: words without a candidate are left out
analyze_spelling_drop(text, sp) ==
    LET words == word_tokenize(text)
        tokens == SelectSeq(words, WordRe)
        lowers == [i \in 1..Len(tokens) |-> StrLower(tokens[i])]
        misspelled == {w \in unknown(sp, lowers) : correction(sp, w) # None}
    IN  [errors |-> [w \in misspelled |-> correction(sp, w)],
         miss_count |-> Cardinality(misspelled)]

\* analyze_spelling(text, spell_checker) -> (corrections, len(misspelled))
analyze_spelling(text, sp) ==
    LET words == word_tokenize(text)
        tokens == SelectSeq(words, WordRe)
        lowers == [i \in 1..Len(tokens) |-> StrLower(tokens[i])]
        misspelled == unknown(sp, lowers)
    IN  [errors |-> [w \in misspelled |-> correction(sp, w)],
         miss_count |-> Cardinality(misspelled)]

\* x or tok, for x the oracle's answer: None and "" are falsy
OrElse(x, tok) == IF x = None \/ x = <<>> THEN tok ELSE x

\* one iteration of the token loop of correct_spelling: what is appended to out
CorrectToken(tok, sp) ==
    IF WordRe(tok)
    THEN IF StrIsUpper(tok)
         THEN tok
         ELSE LET corr == OrElse(correction(sp, StrLower(tok)), tok)
              IN  IF StrIsUpper(SubSeq(tok, 1, 1)) THEN Capitalize(corr) ELSE corr
    ELSE tok

\* the list out of correct_spelling when its loop ends
CorrectTokens(text, sp) ==
    LET words == word_tokenize(text)
    IN  [i \in 1..Len(words) |-> CorrectToken(words[i], sp)]

\* correct_spelling(text, spell_checker)
correct_spelling(text, sp) == FixPunct(Join(CorrectTokens(text, sp)), 1)

\* decode_bytes_with_fallback(data): the uploads are ASCII, which every
\* encoding of the list decodes to itself, so the first one (utf-8) wins
decode_bytes_with_fallback(data) == data

\* ------------------------------------------------------------ inputs
\* all texts of at most n characters
Texts(n) == UNION {[1..k -> Alphabet] : k \in 0..n}

FileNames == {"f1.txt", "f2.txt"}

\* the texts of the uploaded files: "aa", "Aa a", "a,A" and "a-a"
FileTexts ==
    { <<"a", "a">>,
      <<"A", "a", " ", "a">>,
      <<"a", ",", "A">>,
      <<"a", "-", "a">> }

UploadedFile == [name : FileNames, data : FileTexts]

\* what st.file_uploader can return: no file, or up to MaxFiles files
Uploads == UNION {[1..k -> UploadedFile] : k \in 0..MaxFiles}

\* ------------------------------------------------------------ state
VARIABLES
    pc,                 \* where the script is
    pkg_i,              \* _ensure_nltk: index of the package of the loop
    local,              \* NLTK packages present in the local data directory
    downloads,          \* number of nltk.download calls per package
    warned,             \* packages whose download failure was only printed
    uploaded_files,     \* the uploaded files of the run
    spell,              \* the SpellChecker of the run
    idx,                \* number of loop iterations completed
    dedup,              \* word -> correction, across files
    corrected_files,    \* filename -> corrected text, in insertion order
    total_miss_count,   \* running total of the per-file counts
    log,                \* what analyze_spelling / correct_spelling returned per file
    shown,              \* the widgets the run has emitted
    csv,                \* the rows of the CSV download
    zip,                \* the entries of the ZIP download
    t_pc,               \* pure-function specification: position
    t_text,             \* its input text
    t_an,               \* result of analyze_spelling(t_text)
    t_out,              \* the list out of correct_spelling(t_text)
    t_once,             \* correct_spelling(t_text)
    t_twice             \* correct_spelling(correct_spelling(t_text))

batch_vars ==
    <<pc, pkg_i, local, downloads, warned, uploaded_files, idx, dedup,
      corrected_files, total_miss_count, log, shown, csv, zip>>

text_vars == <<t_pc, t_text, t_an, t_out, t_once, t_twice>>

vars == <<batch_vars, spell, text_vars>>

\* required_packages = ["punkt", "punkt_tab"]
required_packages == <<"punkt", "punkt_tab">>

NoOracle == [dict |-> {}, target |-> None]

BatchIdle ==
    /\ uploaded_files = <<>>
    /\ idx = 0
    /\ dedup = <<>>
    /\ corrected_files = <<>>
    /\ total_miss_count = 0
    /\ log = <<>>
    /\ shown = {}
    /\ csv = <<>>
    /\ zip = <<>>

TextIdle ==
    /\ t_pc = "idle"
    /\ t_text = <<>>
    /\ t_an = [errors |-> <<>>, miss_count |-> 0]
    /\ t_out = <<>>
    /\ t_once = <<>>
    /\ t_twice = <<>>

\* the state when the script is started: any of the packages may be there already
Init ==
    /\ pc = "ensure_nltk"
    /\ pkg_i = 1
    /\ local \in SUBSET Range(required_packages)
    /\ downloads = [p \in Range(required_packages) |-> 0]
    /\ warned = {}
    /\ spell = NoOracle
    /\ BatchIdle
    /\ TextIdle

\* ------------------------------------------------------------ _ensure_nltk
\* after the body of the for loop: the next package, or the UI once the loop ends
NextPackage ==
    /\ pkg_i' = pkg_i + 1
    /\ pc' = IF pkg_i = Len(required_packages) THEN "ui" ELSE "ensure_nltk"

\* nltk.data.find succeeds: nothing is fetched
EnsureFound ==
    /\ pc = "ensure_nltk"
    /\ required_packages[pkg_i] \in local
    /\ NextPackage
    /\ UNCHANGED <<local, downloads, warned>>

\* nltk.data.find raises LookupError and nltk.download returns
EnsureDownloaded ==
    /\ pc = "ensure_nltk"
    /\ required_packages[pkg_i] \notin local
    /\ downloads' = [downloads EXCEPT ![required_packages[pkg_i]] = @ + 1]
    /\ local' = local \cup {required_packages[pkg_i]}
    /\ NextPackage
    /\ UNCHANGED warned

\* a faulty variant of EnsureDownloadFails: a failed download is never fatal
EnsureDownloadFailsWarnOnly ==
    /\ pc = "ensure_nltk"
    /\ required_packages[pkg_i] \notin local
    /\ downloads' = [downloads EXCEPT ![required_packages[pkg_i]] = @ + 1]
    /\ warned' = warned \cup {required_packages[pkg_i]}
    /\ NextPackage
    /\ UNCHANGED local

\* nltk.data.find raises LookupError and nltk.download raises too
EnsureDownloadFails ==
    /\ pc = "ensure_nltk"
    /\ required_packages[pkg_i] \notin local
    /\ downloads' = [downloads EXCEPT ![required_packages[pkg_i]] = @ + 1]
    /\ IF required_packages[pkg_i] = "punkt"
       THEN /\ pc' = "fatal"
            /\ UNCHANGED <<pkg_i, warned>>
       ELSE /\ warned' = warned \cup {required_packages[pkg_i]}
            /\ NextPackage
    /\ UNCHANGED local

\* one iteration of the loop of _ensure_nltk
EnsureNltk ==
    /\ \/ EnsureFound
       \/ EnsureDownloaded
       \/ EnsureDownloadFails
    /\ UNCHANGED <<uploaded_files, spell, idx, dedup, corrected_files,
                   total_miss_count, log, shown, csv, zip, text_vars>>


\* ------------------------------------------------------------ batch run
\* the "Run Spell Check" button: without files an error is shown and nothing
\* runs; with files the accumulators are initialised for the loop
RunButton ==
    /\ pc = "ui"
    /\ \E files \in Uploads, sp \in Oracles :
          IF files = <<>>
          THEN /\ shown' = {"error"}
               /\ pc' = "done"
               /\ UNCHANGED <<uploaded_files, spell>>
          ELSE /\ uploaded_files' = files
               /\ spell' = sp
               /\ pc' = "loop"
               /\ UNCHANGED shown
    /\ idx' = 0
    /\ dedup' = <<>>
    /\ corrected_files' = <<>>
    /\ total_miss_count' = 0
    /\ UNCHANGED <<pkg_i, local, downloads, warned, log, csv, zip, text_vars>>

\* a faulty variant of MergeErrors: the file's corrections replace the mapping
MergeErrorsReplace(d, errors) == errors

\* for w, c in errors.items(): if w not in dedup: dedup[w] = c
MergeErrors(d, errors) ==
    [w \in DOMAIN d \cup DOMAIN errors |-> IF w \in DOMAIN d THEN d[w] ELSE errors[w]]

\* a faulty variant of StoreCorrected: the text is appended even when the name is there
StoreCorrectedAppend(cf, filename, fixed) ==
    Append(cf, [name |-> filename, content |-> fixed])

\* corrected_files[filename] = fixed; a dict keeps the place of a key it has
StoreCorrected(cf, filename, fixed) ==
    IF \E k \in 1..Len(cf) : cf[k].name = filename
    THEN [k \in 1..Len(cf) |->
            IF cf[k].name = filename THEN [name |-> filename, content |-> fixed]
            ELSE cf[k]]
    ELSE Append(cf, [name |-> filename, content |-> fixed])

\* a faulty variant of AddCount: the count of the file replaces the total
AddCountReplace(total, miss_count) == miss_count

\* total_miss_count += miss_count
AddCount(total, miss_count) == total + miss_count

\* one iteration of the per-file loop, no call raising
ProcessFile ==
    /\ pc = "loop"
    /\ idx < Len(uploaded_files)
    /\ LET uploaded == uploaded_files[idx + 1]
           text == decode_bytes_with_fallback(uploaded.data)
           an == analyze_spelling(text, spell)
           fixed == correct_spelling(text, spell)
       IN  /\ total_miss_count' = AddCount(total_miss_count, an.miss_count)
           /\ dedup' = MergeErrors(dedup, an.errors)
           /\ corrected_files' = StoreCorrected(corrected_files, uploaded.name, fixed)
           /\ log' = Append(log, [name |-> uploaded.name, errors |-> an.errors,
                                  miss_count |-> an.miss_count, fixed |-> fixed])
    /\ idx' = idx + 1
    /\ UNCHANGED <<pc, pkg_i, local, downloads, warned, uploaded_files, spell,
                   shown, csv, zip, text_vars>>

\* analyze_spelling raises (the tokenizer, the dictionary): nothing catches it
\* in the loop, the script ends there
ProcessFileAnalyzeRaises ==
    /\ pc = "loop"
    /\ idx < Len(uploaded_files)
    /\ pc' = "aborted"
    /\ UNCHANGED <<pkg_i, local, downloads, warned, uploaded_files, spell, idx,
                   dedup, corrected_files, total_miss_count, log, shown, csv,
                   zip, text_vars>>

\* correct_spelling raises, after the file's findings were merged
ProcessFileCorrectRaises ==
    /\ pc = "loop"
    /\ idx < Len(uploaded_files)
    /\ LET uploaded == uploaded_files[idx + 1]
           text == decode_bytes_with_fallback(uploaded.data)
           an == analyze_spelling(text, spell)
       IN  /\ total_miss_count' = AddCount(total_miss_count, an.miss_count)
           /\ dedup' = MergeErrors(dedup, an.errors)
           /\ log' = Append(log, [name |-> uploaded.name, errors |-> an.errors,
                                  miss_count |-> an.miss_count, fixed |-> None])
    /\ pc' = "aborted"
    /\ UNCHANGED <<pkg_i, local, downloads, warned, uploaded_files, spell, idx,
                   corrected_files, shown, csv, zip, text_vars>>

\* the marker the table and the CSV show for a word without correction
NoFix == <<"(", "-", ")">>

\* corr if corr else "(...)"
ShownCorrection(corr) == IF corr = None \/ corr = <<>> THEN NoFix ELSE corr

\* a faulty variant of ZipGuard: the archive is offered only with findings
ZipGuardFindings(d, cf) == d # <<>>

\* if corrected_files:
ZipGuard(d, cf) == cf # <<>>

\* if dedup:
CsvGuard(d) == d # <<>>

\* after the loop: the success message, the table and the CSV when dedup is not
\* empty, the ZIP when corrected_files is not empty, the summary
EmitResults ==
    /\ pc = "loop"
    /\ idx = Len(uploaded_files)
    /\ shown' = {"success", "summary"}
                  \cup (IF CsvGuard(dedup) THEN {"table", "csv"} ELSE {})
                  \cup (IF ZipGuard(dedup, corrected_files) THEN {"zip"} ELSE {})
    /\ csv' = IF CsvGuard(dedup)
              THEN [w \in DOMAIN dedup |-> ShownCorrection(dedup[w])]
              ELSE csv
    /\ zip' = IF ZipGuard(dedup, corrected_files) THEN corrected_files ELSE zip
    /\ pc' = "done"
    /\ UNCHANGED <<pkg_i, local, downloads, warned, uploaded_files, spell, idx,
                   dedup, corrected_files, total_miss_count, log, text_vars>>

Next ==
    \/ EnsureNltk
    \/ RunButton
    \/ ProcessFile
    \/ ProcessFileAnalyzeRaises
    \/ ProcessFileCorrectRaises
    \/ EmitResults

\* the script: import, then one press of the button
Spec == Init /\ [][Next]_vars

\* ------------------------------------------------------------ pure functions
\* the core functions applied to every text of at most MaxLen characters,
\* with every dictionary of Oracles
TextInit ==
    /\ pc = "text"
    /\ pkg_i = 1
    /\ local = {}
    /\ downloads = [p \in Range(required_packages) |-> 0]
    /\ warned = {}
    /\ BatchIdle
    /\ spell \in Oracles
    /\ t_pc = "input"
    /\ t_text \in Texts(MaxLen)
    /\ t_an = [errors |-> <<>>, miss_count |-> 0]
    /\ t_out = <<>>
    /\ t_once = <<>>
    /\ t_twice = <<>>

\* analyze_spelling(t_text, spell)
CallAnalyze ==
    /\ t_pc = "input"
    /\ t_an' = analyze_spelling(t_text, spell)
    /\ t_pc' = "analyzed"
    /\ UNCHANGED <<batch_vars, spell, t_text, t_out, t_once, t_twice>>

\* correct_spelling(t_text, spell), with the list out it builds on the way
CallCorrect ==
    /\ t_pc = "analyzed"
    /\ t_out' = CorrectTokens(t_text, spell)
    /\ t_once' = correct_spelling(t_text, spell)
    /\ t_pc' = "corrected"
    /\ UNCHANGED <<batch_vars, spell, t_text, t_an, t_twice>>

\* correct_spelling on the text correct_spelling returned
CallCorrectAgain ==
    /\ t_pc = "corrected"
    /\ t_twice' = correct_spelling(t_once, spell)
    /\ t_pc' = "again"
    /\ UNCHANGED <<batch_vars, spell, t_text, t_an, t_out, t_once>>

TextNext ==
    \/ CallAnalyze
    \/ CallCorrect
    \/ CallCorrectAgain

SpecText == TextInit /\ [][TextNext]_vars

\* both: the script, and the core functions on every bounded text
SpecAll == (Init \/ TextInit) /\ [][Next \/ TextNext]_vars

\* ------------------------------------------------------------ properties
\* the batch of the run is over and its results were put out
BatchDone == pc = "done" /\ uploaded_files # <<>>

\* the names of the files uploaded
UploadedNames == {uploaded_files[i].name : i \in 1..Len(uploaded_files)}

\* the word-shaped tokens of a text, lower-cased, that the dictionary does not know
UnknownCandidates(text, sp) ==
    {StrLower(tok) : tok \in {t \in Range(word_tokenize(text)) :
                                WordRe(t) /\ StrLower(t) \notin sp.dict}}

\* C1, as claimed: after a batch over a non-empty upload in which no unknown
\* word was found, neither the CSV download nor the ZIP download is emitted.
C1_NoDownloadsWithoutFindings ==
    (BatchDone /\ dedup = <<>>) => ("csv" \notin shown /\ "zip" \notin shown)

\* C1, amended: after such a batch the table and the CSV download are not
\* emitted, and the ZIP download is: it holds the corrected text of every
\* uploaded file name.
C1_OnlyCsvWithheld ==
    (BatchDone /\ dedup = <<>>) =>
        /\ "csv" \notin shown
        /\ "table" \notin shown
        /\ csv = <<>>
        /\ "zip" \in shown
        /\ zip = corrected_files
        /\ {zip[k].name : k \in 1..Len(zip)} = UploadedNames

C1_Witness ==
    /\ BatchDone
    /\ dedup = <<>>
    /\ total_miss_count = 0
    /\ Len(zip) = 2

C3_FailingFileIsSkipped ==
    ~(pc = "aborted" /\ idx < Len(uploaded_files) /\ "success" \notin shown)

\* the mapping holds, for each of its words, the correction reported by the
\* first file in which the word was unknown
FirstFileWins ==
    \A w \in DOMAIN dedup :
        \E i \in 1..Len(log) :
            /\ w \in DOMAIN log[i].errors
            /\ \A j \in 1..(i - 1) : w \notin DOMAIN log[j].errors
            /\ dedup[w] = log[i].errors[w]

\* C4: in every step a key of the deduplicated mapping stays and keeps its
\* value, and after the step every value is the correction reported by the
\* first file in which the word was unknown.
C4_DedupLaw ==
    [][/\ \A w \in DOMAIN dedup : w \in DOMAIN dedup' /\ dedup'[w] = dedup[w]
       /\ FirstFileWins']_vars

C4_Witness ==
    \E w \in DOMAIN dedup :
        \E i, j \in 1..Len(log) :
            /\ i < j
            /\ w \in DOMAIN log[i].errors
            /\ w \in DOMAIN log[j].errors
            /\ DOMAIN log[j].errors # DOMAIN log[i].errors

\* C5: every candidate word the dictionary does not know is a key of the mapping
\* analyze_spelling returns, the count returned is the number of keys, and
\* every such word of every processed file is a key of the deduplicated mapping.
C5_NoSilentDrops ==
    /\ t_pc # "input" /\ t_pc # "idle" =>
          /\ UnknownCandidates(t_text, spell) \subseteq DOMAIN t_an.errors
          /\ t_an.miss_count = Cardinality(DOMAIN t_an.errors)
    /\ \A i \in 1..Len(log) :
          /\ UnknownCandidates(uploaded_files[i].data, spell)
                \subseteq DOMAIN log[i].errors
          /\ log[i].miss_count = Cardinality(DOMAIN log[i].errors)
          /\ UnknownCandidates(uploaded_files[i].data, spell) \subseteq DOMAIN dedup

C5_Witness ==
    /\ BatchDone
    /\ \E i \in 1..Len(log) :
          \E w \in DOMAIN log[i].errors :
              /\ log[i].errors[w] = None
              /\ w \in DOMAIN dedup

\* the first character upper-cased, every other character as it was
UpperFirst(s) == [i \in 1..Len(s) |-> IF i = 1 THEN UpperCh(s[i]) ELSE s[i]]

\* the per-token rule as claimed
ClaimedToken(tok, sp) ==
    IF ~WordRe(tok) THEN tok
    ELSE IF StrIsUpper(tok) THEN tok
    ELSE LET r == IF correction(sp, StrLower(tok)) = None
                  THEN tok
                  ELSE correction(sp, StrLower(tok))
         IN  IF tok[1] \in UpperLetters THEN UpperFirst(r) ELSE r

\* C6, as claimed: correct_spelling emits one token per input token, in order,
\* each by the rule: verbatim when not word-shaped or all upper-case, otherwise
\* the correction of the lower-cased token (the token itself without one), with
\* only its first character upper-cased when the token began upper-case.
C6_PerTokenRule ==
    t_pc \in {"corrected", "again"} =>
        LET words == word_tokenize(t_text)
        IN  /\ Len(t_out) = Len(words)
            /\ \A i \in 1..Len(words) : t_out[i] = ClaimedToken(words[i], spell)

\* every word-shaped token of the text is a word of the dictionary
AllKnown(text, sp) == UnknownCandidates(text, sp) = {}

\* C7, as claimed: for a text whose words are all known to the dictionary,
\* correcting the corrected text gives the corrected text.
C7_Idempotent ==
    (t_pc = "again" /\ AllKnown(t_text, spell) /\ AllKnown(t_once, spell)) =>
        t_twice = t_once

\* the download of package p was tried and failed
FetchFailed(p) == downloads[p] = 1 /\ p \notin local

LastWithName(n) ==
    CHOOSE i \in 1..Len(uploaded_files) :
        /\ uploaded_files[i].name = n
        /\ \A j \in (i + 1)..Len(uploaded_files) : uploaded_files[j].name # n

\* C9: after a batch with at least one finding the archive holds exactly one
\* entry per distinct file name, its content the corrected text of the last
\* file processed under that name; with pairwise distinct names it has as many
\* entries as files were uploaded.
C9_ArchiveEntries ==
    (BatchDone /\ dedup # <<>>) =>
        /\ "zip" \in shown
        /\ {zip[k].name : k \in 1..Len(zip)} = UploadedNames
        /\ \A k, l \in 1..Len(zip) : zip[k].name = zip[l].name => k = l
        /\ \A k \in 1..Len(zip) :
              zip[k].content = log[LastWithName(zip[k].name)].fixed
        /\ Cardinality(UploadedNames) = Len(uploaded_files) =>
              Len(zip) = Len(uploaded_files)

C9_Witness ==
    /\ BatchDone
    /\ dedup # <<>>
    /\ \E i, j \in 1..Len(log) :
          /\ i < j
          /\ log[i].name = log[j].name
          /\ log[i].fixed # log[j].fixed

RECURSIVE SumCounts(_)
\* the sum of the per-file counts of a log
SumCounts(l) == IF l = <<>> THEN 0 ELSE l[1].miss_count + SumCounts(Tail(l))

\* the invariant of the loop
LoopInvariant ==
    /\ DOMAIN dedup = UNION {DOMAIN log[i].errors : i \in 1..Len(log)}
    /\ total_miss_count = SumCounts(log)
    /\ Cardinality(DOMAIN dedup) <= total_miss_count
    /\ dedup = <<>> <=> total_miss_count = 0

\* C10: after any prefix of the files the keys of the deduplicated mapping are
\* the union of the per-file unknown-word sets and the running total is the
\* sum of the per-file counts; the number of unique errors never exceeds the
\* total, neither ever decreases, and the mapping is empty exactly when the
\* total is 0.
C10_LoopInvariant ==
    /\ []LoopInvariant
    /\ [][/\ total_miss_count' >= total_miss_count
          /\ Cardinality(DOMAIN dedup') >= Cardinality(DOMAIN dedup)]_vars

C10_Witness ==
    /\ Len(log) = 2
    /\ Cardinality(DOMAIN dedup) = 2
    /\ total_miss_count = 3

====
